---- MODULE Spec2Model ----
(***************************************************************************)
(* PairwiseAlignment of seqtrace/core/align/pyalign.py: a Needleman-Wunsch *)
(* global aligner with free end gaps.  A Python string is modelled as the  *)
(* sequence of its one-character strings; the gap marker "-" the traceback *)
(* emits is not a symbol of the modelled input sequences.                  *)
(***************************************************************************)
EXTENDS Integers, Sequences, FiniteSets, TLC

VARIABLES gapp, seq1, seq2, seq1aligned, seq2aligned, seq1indexed, seq2indexed,
          score, last, run

vars == <<gapp, seq1, seq2, seq1aligned, seq2aligned, seq1indexed, seq2indexed,
          score, last, run>>

(* The fields written by doAlignment. *)
results == <<seq1aligned, seq2aligned, seq1indexed, seq2indexed, score>>

---------------------------------------------------------------------------
(* Bounds of the model. *)

\* longest sequence handed to setSequences in the object-protocol specification
MaxLen == 2

\* longest sequence over AlignSymbols in the single-run specification
MaxAlignLen == 3

---------------------------------------------------------------------------
(* Program data. *)

\* self.svals: the substitution score table over the IUPAC codes
svals ==
  [
    A |-> [A |-> 6, T |-> -6, G |-> -6, C |-> -6, W |-> 0, S |-> -6, M |-> 0, K |-> -6, R |-> 0, Y |-> -6, B |-> -6, D |-> -2, H |-> -2, V |-> -2, N |-> -3],
    T |-> [A |-> -6, T |-> 6, G |-> -6, C |-> -6, W |-> 0, S |-> -6, M |-> -6, K |-> 0, R |-> -6, Y |-> 0, B |-> -2, D |-> -2, H |-> -2, V |-> -6, N |-> -3],
    G |-> [A |-> -6, T |-> -6, G |-> 6, C |-> -6, W |-> -6, S |-> 0, M |-> -6, K |-> 0, R |-> 0, Y |-> -6, B |-> -2, D |-> -2, H |-> -6, V |-> -2, N |-> -3],
    C |-> [A |-> -6, T |-> -6, G |-> -6, C |-> 6, W |-> -6, S |-> 0, M |-> 0, K |-> -6, R |-> -6, Y |-> 0, B |-> -2, D |-> -6, H |-> -2, V |-> -2, N |-> -3],
    W |-> [A |-> 0, T |-> 0, G |-> -6, C |-> -6, W |-> 0, S |-> -6, M |-> -3, K |-> -3, R |-> -3, Y |-> -3, B |-> -4, D |-> -2, H |-> -2, V |-> -4, N |-> -3],
    S |-> [A |-> -6, T |-> -6, G |-> 0, C |-> 0, W |-> -6, S |-> 0, M |-> -3, K |-> -3, R |-> -3, Y |-> -3, B |-> -2, D |-> -4, H |-> -4, V |-> -2, N |-> -3],
    M |-> [A |-> 0, T |-> -6, G |-> -6, C |-> 0, W |-> -3, S |-> -3, M |-> 0, K |-> -6, R |-> -3, Y |-> -3, B |-> -4, D |-> -4, H |-> -2, V |-> -2, N |-> -3],
    K |-> [A |-> -6, T |-> 0, G |-> 0, C |-> -6, W |-> -3, S |-> -3, M |-> -6, K |-> 0, R |-> -3, Y |-> -3, B |-> -2, D |-> -2, H |-> -4, V |-> -4, N |-> -3],
    R |-> [A |-> 0, T |-> -6, G |-> 0, C |-> -6, W |-> -3, S |-> -3, M |-> -3, K |-> -3, R |-> 0, Y |-> -6, B |-> -4, D |-> -2, H |-> -4, V |-> -2, N |-> -3],
    Y |-> [A |-> -6, T |-> 0, G |-> -6, C |-> 0, W |-> -3, S |-> -3, M |-> -3, K |-> -3, R |-> -6, Y |-> 0, B |-> -2, D |-> -4, H |-> -2, V |-> -4, N |-> -3],
    B |-> [A |-> -6, T |-> -2, G |-> -2, C |-> -2, W |-> -4, S |-> -2, M |-> -4, K |-> -2, R |-> -4, Y |-> -2, B |-> -2, D |-> -3, H |-> -3, V |-> -3, N |-> -3],
    D |-> [A |-> -2, T |-> -2, G |-> -2, C |-> -6, W |-> -2, S |-> -4, M |-> -4, K |-> -2, R |-> -2, Y |-> -4, B |-> -3, D |-> -2, H |-> -3, V |-> -3, N |-> -3],
    H |-> [A |-> -2, T |-> -2, G |-> -6, C |-> -2, W |-> -2, S |-> -4, M |-> -2, K |-> -4, R |-> -4, Y |-> -2, B |-> -3, D |-> -3, H |-> -2, V |-> -3, N |-> -3],
    V |-> [A |-> -2, T |-> -6, G |-> -2, C |-> -2, W |-> -4, S |-> -2, M |-> -2, K |-> -4, R |-> -2, Y |-> -4, B |-> -3, D |-> -3, H |-> -3, V |-> -2, N |-> -3],
    N |-> [A |-> -3, T |-> -3, G |-> -3, C |-> -3, W |-> -3, S |-> -3, M |-> -3, K |-> -3, R |-> -3, Y |-> -3, B |-> -3, D |-> -3, H |-> -3, V |-> -3, N |-> -3]
  ]

\* self.gapp as the constructor sets it
DefaultGapPenalty == -6

\* gap penalties handed to setGapPenalty: the default, a mild one, a positive one
GapPenalties == {DefaultGapPenalty, -1, 2}

\* a character that is not a key of svals
Unknown == "X"

RECURSIVE SeqsUpTo(_, _)
SeqsUpTo(S, n) ==
  IF n = 0 THEN {<<>>}
  ELSE LET shorter == SeqsUpTo(S, n - 1)
       IN  shorter \cup {Append(s, c) : s \in {t \in shorter : Len(t) = n - 1}, c \in S}

\* inputs of the object-protocol specification
ApiSymbols == {"A", Unknown}
ApiSeqs == SeqsUpTo(ApiSymbols, MaxLen)

\* inputs of the single-run specification
AlignSymbols == {"A", "C"}
ScenarioSeq1 == <<"A", "C", "G", "T">>
ScenarioSeq2 == <<"A", "G", "T">>
AlignSeqs == SeqsUpTo(AlignSymbols, MaxAlignLen) \cup {<<Unknown>>, <<"A", Unknown>>}
AlignPairs == (AlignSeqs \X AlignSeqs) \cup {<<ScenarioSeq1, ScenarioSeq2>>}

---------------------------------------------------------------------------
(* doAlignment: grid fill (lines 98-136). *)

\* scores = [[0 ...] ...]: an (n+1) x (m+1) grid of zeros
ZeroGrid(n, m) == [i \in 0..n |-> [j \in 0..m |-> 0]]

\* tracebk after its two initialisation loops; "0" is the untouched cell
InitTracebk(n, m) ==
  [i \in 0..n |-> [j \in 0..m |->
     IF i >= 1 /\ j = 0 THEN "l"
     ELSE IF i = 0 /\ j >= 1 THEN "u"
     ELSE "0"]]

\* self.svals[a][b] raises KeyError unless a and b are keys
Known(a, b) == a \in DOMAIN svals /\ b \in DOMAIN svals[a]

\* the three subscores of cell (i, j), end gap adjustment included
CandidatesSwapped(scores, s1, s2, g, i, j) ==
  LET sdiag  == scores[i-1][j-1] + svals[s1[i]][s2[j]]
      sup0   == scores[i][j-1] + g
      sleft0 == scores[i-1][j] + g
      sup    == IF j = Len(s2) THEN sup0 - g ELSE sup0
      sleft  == IF i = Len(s1) THEN sleft0 - g ELSE sleft0
  IN  [sdiag |-> sdiag, sup |-> sup, sleft |-> sleft]

CandidatesNoFreeEnd(scores, s1, s2, g, i, j) ==
  [sdiag |-> scores[i-1][j-1] + svals[s1[i]][s2[j]],
   sup   |-> scores[i][j-1] + g,
   sleft |-> scores[i-1][j] + g]

Candidates(scores, s1, s2, g, i, j) ==
  LET sdiag  == scores[i-1][j-1] + svals[s1[i]][s2[j]]
      sup0   == scores[i][j-1] + g
      sleft0 == scores[i-1][j] + g
      sleft  == IF j = Len(s2) THEN sleft0 - g ELSE sleft0
      sup    == IF i = Len(s1) THEN sup0 - g ELSE sup0
  IN  [sdiag |-> sdiag, sup |-> sup, sleft |-> sleft]

\* record maximum subscore and direction
ChooseStrict(c) ==
  IF c.sdiag > c.sup /\ c.sdiag > c.sleft THEN [dir |-> "d", val |-> c.sdiag]
  ELSE IF c.sup > c.sdiag /\ c.sup > c.sleft THEN [dir |-> "u", val |-> c.sup]
  ELSE [dir |-> "l", val |-> c.sleft]

ChooseWrongPointer(c) ==
  IF c.sdiag >= c.sup /\ c.sdiag >= c.sleft THEN [dir |-> "d", val |-> c.sdiag]
  ELSE IF c.sup >= c.sdiag /\ c.sup >= c.sleft THEN [dir |-> "l", val |-> c.sup]
  ELSE [dir |-> "u", val |-> c.sleft]

Choose(c) ==
  IF c.sdiag >= c.sup /\ c.sdiag >= c.sleft THEN [dir |-> "d", val |-> c.sdiag]
  ELSE IF c.sup >= c.sdiag /\ c.sup >= c.sleft THEN [dir |-> "u", val |-> c.sup]
  ELSE [dir |-> "l", val |-> c.sleft]

NoCands == [sdiag |-> 0, sup |-> 0, sleft |-> 0]

\* the locals of a call before the first cell is filled
FillStart(n, m) ==
  [scores  |-> ZeroGrid(n, m),
   tracebk |-> InitTracebk(n, m),
   cands   |-> [i \in 0..n |-> [j \in 0..m |-> NoCands]],
   filled  |-> {},
   err     |-> FALSE]

\* the nested for loops, cell k of the row-major order onwards; the loop is
\* left at the first KeyError with the cells filled so far
RECURSIVE FillFrom(_, _, _, _, _)
FillFrom(st, s1, s2, g, k) ==
  IF k >= Len(s1) * Len(s2) THEN st
  ELSE LET i == (k \div Len(s2)) + 1
           j == (k % Len(s2)) + 1
       IN  IF ~Known(s1[i], s2[j]) THEN [st EXCEPT !.err = TRUE]
           ELSE LET c  == Candidates(st.scores, s1, s2, g, i, j)
                    ch == Choose(c)
                IN  FillFrom([st EXCEPT !.scores[i][j]  = ch.val,
                                        !.tracebk[i][j] = ch.dir,
                                        !.cands[i][j]   = c,
                                        !.filled        = @ \cup {<<i, j>>}],
                             s1, s2, g, k + 1)

FillGrid(s1, s2, g) == FillFrom(FillStart(Len(s1), Len(s2)), s1, s2, g, 0)

---------------------------------------------------------------------------
(* doAlignment: traceback (lines 138-174). *)

TraceStart(n, m) ==
  [seq1a |-> <<>>, seq2a |-> <<>>, seq1aindex |-> <<>>, seq2aindex |-> <<>>,
   i |-> n, j |-> m, steps |-> 0]

\* one iteration of the while loop; steps counts the iterations
TraceStepDropsGap(t, s1, s2, tracebk) ==
  IF tracebk[t.i][t.j] = "d" THEN
    [t EXCEPT !.seq1a = Append(@, s1[t.i]), !.seq2a = Append(@, s2[t.j]),
              !.seq1aindex = Append(@, t.i - 1), !.seq2aindex = Append(@, t.j - 1),
              !.i = @ - 1, !.j = @ - 1, !.steps = @ + 1]
  ELSE IF tracebk[t.i][t.j] = "u" THEN
    [t EXCEPT !.seq2a = Append(@, s2[t.j]),
              !.seq2aindex = Append(@, t.j - 1),
              !.j = @ - 1, !.steps = @ + 1]
  ELSE
    [t EXCEPT !.seq1a = Append(@, s1[t.i]), !.seq2a = Append(@, "-"),
              !.seq1aindex = Append(@, t.i - 1), !.seq2aindex = Append(@, -1),
              !.i = @ - 1, !.steps = @ + 1]

TraceStep(t, s1, s2, tracebk) ==
  IF tracebk[t.i][t.j] = "d" THEN
    [t EXCEPT !.seq1a = Append(@, s1[t.i]), !.seq2a = Append(@, s2[t.j]),
              !.seq1aindex = Append(@, t.i - 1), !.seq2aindex = Append(@, t.j - 1),
              !.i = @ - 1, !.j = @ - 1, !.steps = @ + 1]
  ELSE IF tracebk[t.i][t.j] = "u" THEN
    [t EXCEPT !.seq1a = Append(@, "-"), !.seq2a = Append(@, s2[t.j]),
              !.seq1aindex = Append(@, -1), !.seq2aindex = Append(@, t.j - 1),
              !.j = @ - 1, !.steps = @ + 1]
  ELSE
    [t EXCEPT !.seq1a = Append(@, s1[t.i]), !.seq2a = Append(@, "-"),
              !.seq1aindex = Append(@, t.i - 1), !.seq2aindex = Append(@, -1),
              !.i = @ - 1, !.steps = @ + 1]

\* while (i > 0) or (j > 0)
RECURSIVE TraceLoop(_, _, _, _)
TraceLoop(t, s1, s2, tracebk) ==
  IF t.i > 0 \/ t.j > 0
  THEN TraceLoop(TraceStep(t, s1, s2, tracebk), s1, s2, tracebk)
  ELSE t

\* list.reverse()
Reverse(s) == [k \in 1..Len(s) |-> s[Len(s) + 1 - k]]

---------------------------------------------------------------------------
(* doAlignment: gap marking of the index arrays (lines 176-187). *)

\* the for loop from column cnt on (cnt is 1-based here); gv1, gv2 are
\* seq1gv, seq2gv
RECURSIVE MarkGapsFromZero(_, _, _, _, _)
MarkGapsFromZero(x1, x2, cnt, gv1, gv2) ==
  IF cnt > Len(x1) THEN [seq1indexed |-> x1, seq2indexed |-> x2]
  ELSE MarkGapsFromZero(IF x1[cnt] = -1 THEN [x1 EXCEPT ![cnt] = gv1 + 1] ELSE x1,
                        IF x2[cnt] = -1 THEN [x2 EXCEPT ![cnt] = gv2 + 1] ELSE x2,
                        cnt + 1,
                        IF x1[cnt] = -1 THEN gv1 ELSE gv1 - 1,
                        IF x2[cnt] = -1 THEN gv2 ELSE gv2 - 1)

RECURSIVE MarkGapsCounting(_, _, _, _, _)
MarkGapsCounting(x1, x2, cnt, gv1, gv2) ==
  IF cnt > Len(x1) THEN [seq1indexed |-> x1, seq2indexed |-> x2]
  ELSE MarkGapsCounting(IF x1[cnt] = -1 THEN [x1 EXCEPT ![cnt] = gv1] ELSE x1,
                        IF x2[cnt] = -1 THEN [x2 EXCEPT ![cnt] = gv2] ELSE x2,
                        cnt + 1, gv1 - 1, gv2 - 1)

RECURSIVE MarkGapsFrom(_, _, _, _, _)
MarkGapsFrom(x1, x2, cnt, gv1, gv2) ==
  IF cnt > Len(x1) THEN [seq1indexed |-> x1, seq2indexed |-> x2]
  ELSE MarkGapsFrom(IF x1[cnt] = -1 THEN [x1 EXCEPT ![cnt] = gv1] ELSE x1,
                    IF x2[cnt] = -1 THEN [x2 EXCEPT ![cnt] = gv2] ELSE x2,
                    cnt + 1,
                    IF x1[cnt] = -1 THEN gv1 ELSE gv1 - 1,
                    IF x2[cnt] = -1 THEN gv2 ELSE gv2 - 1)

MarkGapsZeroBased(x1, x2) == MarkGapsFromZero(x1, x2, 1, -1, -1)

MarkGapsEveryColumn(x1, x2) == MarkGapsCounting(x1, x2, 1, -1, -1)

\* seq1gv = seq2gv = -1, then the loop over every column
MarkGaps(x1, x2) == MarkGapsFrom(x1, x2, 1, -1, -1)

---------------------------------------------------------------------------
(* doAlignment as a whole: what a call computes from the fields it reads. *)

AlignmentOf(s1, s2, g) ==
  LET n == Len(s1)
      m == Len(s2)
      f == FillGrid(s1, s2, g)
  IN  IF f.err
      THEN [raised |-> TRUE, fill |-> f, steps |-> 0, i |-> n, j |-> m,
            seq1aligned |-> <<>>, seq2aligned |-> <<>>,
            seq1indexed |-> <<>>, seq2indexed |-> <<>>]
      ELSE LET t  == TraceLoop(TraceStart(n, m), s1, s2, f.tracebk)
               ix == MarkGaps(Reverse(t.seq1aindex), Reverse(t.seq2aindex))
           IN  [raised |-> FALSE, fill |-> f, steps |-> t.steps, i |-> t.i, j |-> t.j,
                seq1aligned |-> Reverse(t.seq1a), seq2aligned |-> Reverse(t.seq2a),
                seq1indexed |-> ix.seq1indexed, seq2indexed |-> ix.seq2indexed]

\* self.score = scores[seq1len][seq2len] stands after the fill loops, so a
\* KeyError leaves the old score
StoredScoreBeforeFill(r, old, n, m) == r.fill.scores[n][m]

StoredScore(r, old, n, m) == IF r.raised THEN old ELSE r.fill.scores[n][m]

\* the locals of the call that has just returned or raised
RunOf(r) ==
  [scores |-> r.fill.scores, tracebk |-> r.fill.tracebk, cands |-> r.fill.cands,
   filled |-> r.fill.filled, steps |-> r.steps, i |-> r.i, j |-> r.j]

\* no doAlignment frame: the last call was another method
NoRun ==
  [scores |-> ZeroGrid(0, 0), tracebk |-> InitTracebk(0, 0),
   cands |-> [i \in 0..0 |-> [j \in 0..0 |-> NoCands]],
   filled |-> {}, steps |-> 0, i |-> 0, j |-> 0]

---------------------------------------------------------------------------
(* The object: constructor and methods. *)

Init ==
  /\ gapp = DefaultGapPenalty
  /\ seq1 = <<>>
  /\ seq2 = <<>>
  /\ seq1aligned = <<>>
  /\ seq2aligned = <<>>
  /\ seq1indexed = <<>>
  /\ seq2indexed = <<>>
  /\ score = 0
  /\ last = [op |-> "init", args |-> <<>>]
  /\ run = NoRun

SetGapPenalty(gap_penalty) ==
  /\ gapp' = gap_penalty
  /\ last' = [op |-> "setGapPenalty", args |-> <<gap_penalty>>]
  /\ run' = NoRun
  /\ UNCHANGED <<seq1, seq2, seq1aligned, seq2aligned, seq1indexed, seq2indexed, score>>

SetSequencesClearing(sequence1, sequence2) ==
  /\ seq1' = sequence1
  /\ seq2' = sequence2
  /\ seq1aligned' = <<>>
  /\ seq2aligned' = <<>>
  /\ seq1indexed' = <<>>
  /\ seq2indexed' = <<>>
  /\ score' = 0
  /\ last' = [op |-> "setSequences", args |-> <<sequence1, sequence2>>]
  /\ run' = NoRun
  /\ UNCHANGED gapp

SetSequences(sequence1, sequence2) ==
  /\ seq1' = sequence1
  /\ seq2' = sequence2
  /\ last' = [op |-> "setSequences", args |-> <<sequence1, sequence2>>]
  /\ run' = NoRun
  /\ UNCHANGED <<gapp, seq1aligned, seq2aligned, seq1indexed, seq2indexed, score>>

DoAlignment ==
  LET r == AlignmentOf(seq1, seq2, gapp)
  IN  /\ score' = StoredScore(r, score, Len(seq1), Len(seq2))
      /\ seq1aligned' = IF r.raised THEN seq1aligned ELSE r.seq1aligned
      /\ seq2aligned' = IF r.raised THEN seq2aligned ELSE r.seq2aligned
      /\ seq1indexed' = IF r.raised THEN seq1indexed ELSE r.seq1indexed
      /\ seq2indexed' = IF r.raised THEN seq2indexed ELSE r.seq2indexed
      /\ last' = [op |-> IF r.raised THEN "KeyError" ELSE "doAlignment", args |-> <<>>]
      /\ run' = RunOf(r)
      /\ UNCHANGED <<gapp, seq1, seq2>>

Next ==
  \/ \E g \in GapPenalties : SetGapPenalty(g)
  \/ \E s1 \in ApiSeqs, s2 \in ApiSeqs : SetSequences(s1, s2)
  \/ DoAlignment

Spec == Init /\ [][Next]_vars

(* A single configured aligner: the constructor, setGapPenalty and           *)
(* setSequences have run; the sequences stay, runs and penalty changes follow. *)
InitAlign ==
  /\ gapp \in GapPenalties
  /\ \E p \in AlignPairs : seq1 = p[1] /\ seq2 = p[2]
  /\ seq1aligned = <<>>
  /\ seq2aligned = <<>>
  /\ seq1indexed = <<>>
  /\ seq2indexed = <<>>
  /\ score = 0
  /\ last = [op |-> "setSequences", args |-> <<seq1, seq2>>]
  /\ run = NoRun

NextAlign ==
  \/ \E g \in GapPenalties : SetGapPenalty(g)
  \/ DoAlignment

SpecAlign == InitAlign /\ [][NextAlign]_vars

---------------------------------------------------------------------------
(* Vocabulary of the properties. *)

Succeeded == last.op = "doAlignment"
Raised    == last.op = "KeyError"

SetMax(S) == CHOOSE x \in S : \A y \in S : y <= x

RECURSIVE SumTo(_, _)
SumTo(f, k) == IF k = 0 THEN 0 ELSE f[k] + SumTo(f, k - 1)

\* A global alignment of n and m bases is a sequence of columns <<a, b>>: a is
\* the 1-based position of the base of sequence 1 in the column, 0 for a gap; b
\* likewise for sequence 2; no column is <<0, 0>>, bases in order, each once.
RECURSIVE Alignments(_, _)
Alignments(n, m) ==
  IF n = 0 /\ m = 0 THEN {<<>>}
  ELSE (IF n > 0 /\ m > 0 THEN {Append(p, <<n, m>>) : p \in Alignments(n - 1, m - 1)} ELSE {})
       \cup (IF n > 0 THEN {Append(p, <<n, 0>>) : p \in Alignments(n - 1, m)} ELSE {})
       \cup (IF m > 0 THEN {Append(p, <<0, m>>) : p \in Alignments(n, m - 1)} ELSE {})

\* the gap of side s (1 or 2) in column c is an end gap: no base of that
\* sequence to its left, or none to its right
EndGap(p, s, c) ==
  \/ \A d \in 1..(c - 1) : p[d][s] = 0
  \/ \A d \in (c + 1)..Len(p) : p[d][s] = 0

ColumnScore(p, s1, s2, g, c) ==
  IF p[c][1] # 0 /\ p[c][2] # 0 THEN svals[s1[p[c][1]]][s2[p[c][2]]]
  ELSE IF p[c][1] = 0 THEN (IF EndGap(p, 1, c) THEN 0 ELSE g)
  ELSE (IF EndGap(p, 2, c) THEN 0 ELSE g)

AlignmentScore(p, s1, s2, g) ==
  SumTo([c \in 1..Len(p) |-> ColumnScore(p, s1, s2, g, c)], Len(p))

\* number of bases (non-gap characters) of an aligned string left of column c
BasesLeft(a, c) == Cardinality({d \in 1..(c - 1) : a[d] # "-"})

\* the columns of a returned aligned pair, read back as an alignment
ColumnsOf(a1, a2) ==
  [c \in 1..Len(a1) |->
     <<IF a1[c] = "-" THEN 0 ELSE BasesLeft(a1, c) + 1,
       IF a2[c] = "-" THEN 0 ELSE BasesLeft(a2, c) + 1>>]

HasUnknown(s) == \E k \in 1..Len(s) : s[k] \notin DOMAIN svals

---------------------------------------------------------------------------
(* C1: right after a doAlignment that succeeded, the stored score is the     *)
(* maximum, over all global alignments of the stored sequences, of the sum   *)
(* of the substitution scores of the base/base columns plus the stored gap   *)
(* penalty for every gap column that is not an end gap.                      *)
C1_ScoreIsOptimal ==
  Succeeded =>
    score = SetMax({AlignmentScore(p, seq1, seq2, gapp) :
                      p \in Alignments(Len(seq1), Len(seq2))})

\* an optimum that needs an internal gap, reached under a changed penalty
C1_Witness ==
  /\ Succeeded
  /\ seq1 = <<"A", "C", "A">>
  /\ seq2 = <<"A", "A">>
  /\ gapp = -1
  /\ score = 11

(* C2: right after a doAlignment that succeeded, the returned aligned pair   *)
(* attains the stored score under the same scoring; ACGT against AGT with    *)
(* gap penalty -6 gives ACGT over A-GT with score 12.                        *)
C2_ReturnedAlignmentAttainsScore ==
  Succeeded =>
    /\ Len(seq1aligned) = Len(seq2aligned)
    /\ AlignmentScore(ColumnsOf(seq1aligned, seq2aligned), seq1, seq2, gapp) = score
    /\ (seq1 = ScenarioSeq1 /\ seq2 = ScenarioSeq2 /\ gapp = DefaultGapPenalty) =>
         /\ seq1aligned = <<"A", "C", "G", "T">>
         /\ seq2aligned = <<"A", "-", "G", "T">>
         /\ score = 12

C2_Witness ==
  /\ Succeeded
  /\ seq1 = ScenarioSeq1
  /\ seq2 = ScenarioSeq2
  /\ gapp = DefaultGapPenalty
  /\ seq2aligned = <<"A", "-", "G", "T">>

(* C3: every doAlignment on stored sequences of which at least one character *)
(* is not a key of the score table raises the lookup error, whatever the     *)
(* other sequence, the empty one included.                                   *)
C3_UnknownSymbolRaises ==
  ((Succeeded \/ Raised) /\ (HasUnknown(seq1) \/ HasUnknown(seq2))) => Raised

(* C4: a doAlignment that raises the lookup error leaves the stored score,   *)
(* aligned sequences, index arrays, sequences and gap penalty as they were.  *)
C4_FailedRunChangesNothing ==
  [][last'.op = "KeyError" =>
       /\ results' = results
       /\ <<seq1', seq2', gapp'>> = <<seq1, seq2, gapp>>]_vars

\* a run that raised after filling a cell, the results of an earlier run still stored
C4_Witness ==
  /\ Raised
  /\ run.filled # {}
  /\ score = 12
  /\ seq1aligned = <<"A", "A">>

(* C5 (as amended): setSequences stores the two sequences and nothing else:  *)
(* the new pair is stored, no alignment of it is computed, and the aligned   *)
(* sequences, index arrays and score of an earlier doAlignment, as well as   *)
(* the gap penalty, stay exactly as they were.                               *)
C5_SetSequencesKeepsResults ==
  [][last'.op = "setSequences" =>
       /\ seq1' = last'.args[1]
       /\ seq2' = last'.args[2]
       /\ run' = NoRun
       /\ results' = results
       /\ gapp' = gapp]_vars

\* results of the run on the previous pair are still stored next to the new pair
C5_Witness ==
  /\ last.op = "setSequences"
  /\ seq1 = <<"A", "A">>
  /\ seq2 = <<>>
  /\ seq1aligned = <<"A">>
  /\ seq2aligned = <<"A">>
  /\ score = 6

(* C5 (as stated): after setSequences with a new pair, the aligned sequences *)
(* and index arrays computed by an earlier doAlignment for the previous pair *)
(* are no longer the stored ones.                                            *)
C5_SetSequencesDropsResults ==
  [][(/\ last'.op = "setSequences"
      /\ <<seq1', seq2'>> # <<seq1, seq2>>
      /\ Len(seq1aligned) > 0) =>
       /\ <<seq1aligned', seq2aligned'>> # <<seq1aligned, seq2aligned>>
       /\ <<seq1indexed', seq2indexed'>> # <<seq1indexed, seq2indexed>>]_vars

(* C6: in every reachable state the two aligned sequences have equal length  *)
(* and so have the two index arrays; right after a doAlignment that          *)
(* succeeded the traceback has stopped at cell (0,0) and that length is the  *)
(* number of traceback steps taken.                                          *)
C6_AlignedLengths ==
  /\ Len(seq1aligned) = Len(seq2aligned)
  /\ Len(seq1indexed) = Len(seq2indexed)
  /\ Succeeded =>
       /\ run.i = 0
       /\ run.j = 0
       /\ Len(seq1aligned) = run.steps
       /\ Len(seq1indexed) = run.steps

C6_Witness ==
  /\ Succeeded
  /\ seq1 = <<"A", "A">>
  /\ seq2 = <<"A">>
  /\ run.steps = 2
  /\ Len(seq2aligned) = 2

\* columns c, c+1 of aligned string a are both gaps
GapPair(a, c) == c \in 1..(Len(a) - 1) /\ a[c] = "-" /\ a[c + 1] = "-"

(* C7 (as amended): right after a doAlignment that succeeded, within every   *)
(* run of two or more consecutive gap columns of one sequence the sentinel   *)
(* values stored in that sequence's index array are all equal.               *)
C7_GapRunSentinelsEqual ==
  Succeeded =>
    /\ \A c \in 1..Len(seq1aligned) :
         GapPair(seq1aligned, c) => seq1indexed[c + 1] = seq1indexed[c]
    /\ \A c \in 1..Len(seq2aligned) :
         GapPair(seq2aligned, c) => seq2indexed[c + 1] = seq2indexed[c]

C7_Witness ==
  /\ Succeeded
  /\ \E c \in 1..Len(seq1aligned) :
       /\ GapPair(seq1aligned, c)
       /\ seq1indexed[c] = -2
       /\ seq1indexed[c + 1] = -2

(* C7 (as stated): within every run of two or more consecutive gap columns   *)
(* the sentinel values are strictly decreasing from left to right.           *)
C7_GapRunSentinelsDecrease ==
  Succeeded =>
    /\ \A c \in 1..Len(seq1aligned) :
         GapPair(seq1aligned, c) => seq1indexed[c + 1] < seq1indexed[c]
    /\ \A c \in 1..Len(seq2aligned) :
         GapPair(seq2aligned, c) => seq2indexed[c + 1] < seq2indexed[c]

(* C8 (as amended): at every filled cell (i,j) the 'up' candidate is         *)
(* scores[i][j-1] without the gap penalty exactly when i = n (last row) and  *)
(* the 'left' candidate is scores[i-1][j] without it exactly when j = m      *)
(* (last column); otherwise each includes the gap penalty.                   *)
C8_EndGapCandidates ==
  \A c \in run.filled :
    /\ run.cands[c[1]][c[2]].sup =
         run.scores[c[1]][c[2] - 1] + (IF c[1] = Len(seq1) THEN 0 ELSE gapp)
    /\ run.cands[c[1]][c[2]].sleft =
         run.scores[c[1] - 1][c[2]] + (IF c[2] = Len(seq2) THEN 0 ELSE gapp)

\* a last-row cell whose 'up' is free and a last-column cell whose 'up' is charged
C8_Witness ==
  /\ Succeeded
  /\ Len(seq1) = 2
  /\ Len(seq2) = 3
  /\ gapp = DefaultGapPenalty
  /\ run.cands[2][1].sup = run.scores[2][0]
  /\ run.cands[1][3].sup = run.scores[1][2] + gapp
  /\ run.cands[1][3].sleft = run.scores[0][3]

(* C8 (as stated): the 'up' candidate is without the gap penalty exactly     *)
(* when j = m and the 'left' candidate exactly when i = n.                   *)
C8_EndGapCandidatesAsStated ==
  \A c \in run.filled :
    /\ run.cands[c[1]][c[2]].sup =
         run.scores[c[1]][c[2] - 1] + (IF c[2] = Len(seq2) THEN 0 ELSE gapp)
    /\ run.cands[c[1]][c[2]].sleft =
         run.scores[c[1] - 1][c[2]] + (IF c[1] = Len(seq1) THEN 0 ELSE gapp)

Max3(a, b, c) == SetMax({a, b, c})

(* C9: at every filled cell the recorded score is the maximum of the three   *)
(* candidates and the recorded direction is diagonal whenever diagonal       *)
(* attains it, otherwise up whenever up attains it, and left only when left  *)
(* is strictly greater than both others.                                     *)
C9_MaxWithPriority ==
  \A c \in run.filled :
    LET k  == run.cands[c[1]][c[2]]
        mx == Max3(k.sdiag, k.sup, k.sleft)
        d  == run.tracebk[c[1]][c[2]]
    IN  /\ run.scores[c[1]][c[2]] = mx
        /\ d = (IF k.sdiag = mx THEN "d" ELSE IF k.sup = mx THEN "u" ELSE "l")
        /\ d = "l" => (k.sleft > k.sdiag /\ k.sleft > k.sup)

\* a cell where diagonal and left tie for the maximum, and one where left wins
C9_Witness ==
  /\ Succeeded
  /\ \E c \in run.filled :
       /\ run.cands[c[1]][c[2]].sdiag = run.cands[c[1]][c[2]].sleft
       /\ run.cands[c[1]][c[2]].sdiag > run.cands[c[1]][c[2]].sup
       /\ run.tracebk[c[1]][c[2]] = "d"
  /\ \E c \in run.filled : run.tracebk[c[1]][c[2]] = "l"

(* C10: right after a doAlignment that succeeded, every gap column of a      *)
(* sequence holds -(k+1) in that sequence's index array, k the number of     *)
(* that sequence's bases left of the column, and every other column holds    *)
(* its source index, which is not negative.                                  *)
C10_IndexArrays ==
  Succeeded =>
    /\ Len(seq1indexed) = Len(seq1aligned)
    /\ Len(seq2indexed) = Len(seq2aligned)
    /\ \A c \in 1..Len(seq1aligned) :
         IF seq1aligned[c] = "-"
         THEN seq1indexed[c] = -(BasesLeft(seq1aligned, c) + 1)
         ELSE /\ seq1indexed[c] = BasesLeft(seq1aligned, c)
              /\ seq1indexed[c] >= 0
              /\ seq1[seq1indexed[c] + 1] = seq1aligned[c]
    /\ \A c \in 1..Len(seq2aligned) :
         IF seq2aligned[c] = "-"
         THEN seq2indexed[c] = -(BasesLeft(seq2aligned, c) + 1)
         ELSE /\ seq2indexed[c] = BasesLeft(seq2aligned, c)
              /\ seq2indexed[c] >= 0
              /\ seq2[seq2indexed[c] + 1] = seq2aligned[c]

\* an internal gap of sequence 2 before its base 1
C10_Witness ==
  /\ Succeeded
  /\ seq1indexed = <<0, 1, 2>>
  /\ seq2indexed = <<0, -2, 1>>

====
